---- MODULE Spec2Model ----
(***************************************************************************)
(* Model of src/src/waypoint_maker.cpp: the WaypointMaker node.            *)
(*                                                                         *)
(* run() is a single-threaded loop: while ros::ok(), spinOnce() drains the *)
(* callbacks that are pending (joyCallback, amclPoseCallback), then the    *)
(* save flag is checked once, then the loop sleeps.  Messages arrive from  *)
(* the middleware at any time and wait in the callback queue (inbox).      *)
(***************************************************************************)
EXTENDS Integers, Sequences, FiniteSets, TLC

(***************************************************************************)
(* Bounds of the model.                                                    *)
(***************************************************************************)
\* total number of messages the middleware delivers in one behaviour
MaxEvents == 3

(***************************************************************************)
(* Messages.  Numbers stand for the doubles of the program: positions and  *)
(* axes in units of 10^-6, quaternion components in units of 10^-4.        *)
(***************************************************************************)
\* C++ v[i] on a 1-based TLA+ sequence
At(v, i) == v[i + 1]

\* geometry_msgs::Pose as far as the program touches it
MkPose(px, py, qx, qy, qz, qw) ==
    [x |-> px, y |-> py, ox |-> qx, oy |-> qy, oz |-> qz, ow |-> qw]

\* faulty variant: the constructor leaves the pose as the message type
\* initialises it, all zero
DefaultPose_Zero == MkPose(0, 0, 0, 0, 0, 0)

\* the pose the constructor sets (other fields are value-initialised to 0)
DefaultPose == MkPose(0, 0, 0, 0, 0, 10000)

\* poses the localisation may report
Poses ==
    { MkPose(1000000, 2000000, 0, 0, 0, 10000),
      MkPose(0, 0, 0, 0, 7071, 7071) }

\* sensor_msgs::Joy: buttons (int32 list) and axes (float list); the last
\* three are undersized (fewer than 3 buttons, fewer than 4 axes)
JoyMsgs ==
    { [buttons |-> <<0, 0, 0>>, axes |-> <<0, 0, 0, 0>>],
      [buttons |-> <<0, 0, 1, 0>>, axes |-> <<-300000, 0, 0, 500000>>],
      [buttons |-> <<1, 0, 0>>, axes |-> <<250000, 0, 0, -1000000>>],
      [buttons |-> <<1, 1>>, axes |-> <<0, 0, 0, 0>>],
      [buttons |-> <<0, 0, 1>>, axes |-> <<250000, 0, 500000>>],
      [buttons |-> <<0, 0, 0>>, axes |-> <<250000, 0, 500000>>] }

JoyEvents == { [type |-> "joy", joy |-> m] : m \in JoyMsgs }
PoseEvents == { [type |-> "pose", pose |-> p] : p \in Poses }

\* what an out-of-bounds read of a vector element can yield when it does not
\* fault: some value of the element type
GarbageButtons == {0, 1, 7}
GarbageAxes == {123456}

VARIABLES
    pc,             \* position of run(): "loop", "spin", "sleep", "done", "crashed"
    ros_ok,         \* what ros::ok() returns
    inbox,          \* callback queue: messages received and not yet handled
                    \* (never longer than MaxEvents, below the subscribers'
                    \* queue size of 10, so no message is dropped)
    todo,           \* callbacks spinOnce() still has to call in this cycle
    current_pose_,  \* member current_pose_
    save_waypoint_, \* member save_waypoint_
    waypoint_id_,   \* member waypoint_id_
    csv_file,       \* lines of the file at csv_file_path_
    marker_pub,     \* markers published on waypoint_markers, in order
    cmd_vel_pub,    \* twists published on ypspur_ros/cmd_vel, in order
    arrived,        \* number of messages delivered so far (bounded by MaxEvents)
    \* history of the run, read by the properties only
    csv_init,       \* the file's content when the process started
    open_log,       \* outcome of each open of the file, in order (TRUE: opened)
    joy_log,        \* the joyCallback calls made, in order
    cycle           \* the current processing cycle: what it started from and saw

vars == <<pc, ros_ok, inbox, todo, current_pose_, save_waypoint_, waypoint_id_,
          csv_file, marker_pub, cmd_vel_pub, arrived,
          csv_init, open_log, joy_log, cycle>>

\* the members and outputs no callback touches
saved_state == <<waypoint_id_, csv_file, marker_pub, open_log>>

(***************************************************************************)
(* saveWaypointToCSV: the yaw and the line written.                        *)
(***************************************************************************)
\* a double as sign and magnitude, the magnitude in units of 10^-8 (the sign
\* is kept apart because the program can produce and print a negative zero)
Num(negative, magnitude) == [neg |-> negative, mag |-> magnitude]

Abs(v) == IF v < 0 THEN -v ELSE v

\* a position, held in units of 10^-6
PosNum(v) == Num(v < 0, Abs(v) * 100)

RECURSIVE Pow(_, _)
Pow(b, k) == IF k = 0 THEN 1 ELSE b * Pow(b, k - 1)

\* atan(2^-i) for i = 0..27, in units of 10^-8 rad
AtanTable ==
    <<78539816, 46364761, 24497866, 12435499, 6241881, 3123983, 1562373,
      781234, 390623, 195312, 97656, 48828, 24414, 12207, 6104, 3052, 1526,
      763, 381, 191, 95, 48, 24, 12, 6, 3, 1, 1>>

PiUnits == 314159265
HalfPiUnits == 157079633
\* the vector is doubled until one component reaches 2.5 (units of 10^-8), to
\* keep the rounding of the rotation steps below the last digit
RECURSIVE CordicScale(_, _)
CordicScale(cx, sy) ==
    IF cx < 250000000 /\ sy < 250000000 THEN CordicScale(2 * cx, 2 * sy)
    ELSE <<cx, sy>>

\* rotate (cx, sy) onto the x axis, summing the angles turned
RECURSIVE CordicTurn(_, _, _, _)
CordicTurn(cx, sy, ang, i) ==
    IF sy = 0 \/ i = Len(AtanTable) THEN ang
    ELSE IF sy > 0
         THEN CordicTurn(cx + sy \div Pow(2, i), sy - cx \div Pow(2, i),
                         ang + AtanTable[i + 1], i + 1)
         ELSE CordicTurn(cx - sy \div Pow(2, i), sy + cx \div Pow(2, i),
                         ang - AtanTable[i + 1], i + 1)

\* atan2 of magnitudes: the angle of (cx, sy), cx >= 0, sy >= 0, in 0..pi/2
AtanQuadrant(cx, sy) ==
    IF sy = 0 THEN 0
    ELSE IF cx = 0 THEN HalfPiUnits
    ELSE LET v == CordicScale(cx, sy) IN CordicTurn(v[1], v[2], 0, 0)

\* atan2(y, x) of <cmath>, y given as sign and magnitude (y may be -0.0)
Atan2(yneg, ymag, x) ==
    LET a == AtanQuadrant(Abs(x), ymag) IN
    Num(yneg, IF x < 0 THEN PiUnits - a ELSE a)

\* faulty variant: the general quaternion-to-yaw conversion, which also reads
\* the components x and y
Yaw_AllComponents(pose) ==
    LET s == pose.ow * pose.oz + pose.ox * pose.oy IN
    Atan2(s < 0 \/ (s = 0 /\ (pose.ow < 0) # (pose.oz < 0)),
          2 * Abs(s),
          100000000 - 2 * (pose.oy * pose.oy + pose.oz * pose.oz))

\* double yaw = atan2(2.0 * (w * z), 1.0 - 2.0 * (z * z))
\* (ow, oz in units of 10^-4, so the products are in units of 10^-8)
Yaw(pose) ==
    Atan2((pose.ow < 0) # (pose.oz < 0),
          2 * Abs(pose.ow * pose.oz),
          100000000 - 2 * (pose.oz * pose.oz))

(***************************************************************************)
(* operator<<(std::ostream&, double) with the stream's default format:     *)
(* precision 6, neither fixed nor scientific, i.e. printf's %g.            *)
(***************************************************************************)
DigitChar(d) ==
    CASE d = 0 -> "0" [] d = 1 -> "1" [] d = 2 -> "2" [] d = 3 -> "3"
      [] d = 4 -> "4" [] d = 5 -> "5" [] d = 6 -> "6" [] d = 7 -> "7"
      [] d = 8 -> "8" [] d = 9 -> "9"

RECURSIVE NumDigits(_)
NumDigits(n) == IF n < 10 THEN 1 ELSE 1 + NumDigits(n \div 10)

\* n in decimal, zero-padded on the left to width digits
RECURSIVE PadStr(_, _)
PadStr(n, width) ==
    IF width <= 1 /\ n < 10 THEN DigitChar(n)
    ELSE PadStr(n \div 10, width - 1) \o DigitChar(n % 10)

\* the width digits of n as a fraction part, trailing zeros removed
RECURSIVE FracStr(_, _)
FracStr(n, width) ==
    IF width = 0 \/ n = 0 THEN ""
    ELSE IF n % 10 = 0 THEN FracStr(n \div 10, width - 1)
    ELSE PadStr(n, width)

RECURSIVE Zeros(_)
Zeros(k) == IF k = 0 THEN "" ELSE "0" \o Zeros(k - 1)

\* the stream's precision()
Precision == 6

\* magnitude mag > 0 (units 10^-8) rounded to Precision significant digits:
\* <<those digits as a number, decimal exponent of the first one>>
SigDigits(mag) ==
    LET n == NumDigits(mag)
        cut == Pow(10, n - Precision)
        m == IF n > Precision
             THEN mag \div cut + (IF 2 * (mag % cut) >= cut THEN 1 ELSE 0)
             ELSE mag * Pow(10, Precision - n)
    IN IF m = Pow(10, Precision)
       THEN <<Pow(10, Precision - 1), n - 8>>
       ELSE <<m, n - 9>>

WithPoint(int, frac) == IF frac = "" THEN int ELSE int \o "." \o frac

FormatDouble(v) ==
    LET sign == IF v.neg THEN "-" ELSE "" IN
    IF v.mag = 0 THEN sign \o "0"
    ELSE LET sd == SigDigits(v.mag)
             m == sd[1]
             e == sd[2]
             low == Pow(10, Precision - 1)
         IN sign \o
            (IF e < -4
             THEN WithPoint(DigitChar(m \div low), FracStr(m % low, Precision - 1))
                  \o "e-" \o PadStr(-e, 2)
             ELSE IF e < 0
             THEN "0." \o Zeros(-e - 1) \o FracStr(m, Precision)
             ELSE LET p == Pow(10, Precision - 1 - e) IN
                  WithPoint(PadStr(m \div p, 1), FracStr(m % p, Precision - 1 - e)))

\* faulty variant: y is written before x
CsvLine_YX(pose) ==
    FormatDouble(PosNum(pose.y)) \o "," \o FormatDouble(PosNum(pose.x)) \o ","
    \o FormatDouble(Yaw(pose)) \o "\n"

\* file << pose.position.x << "," << pose.position.y << "," << yaw << "\n"
CsvLine(pose) ==
    FormatDouble(PosNum(pose.x)) \o "," \o FormatDouble(PosNum(pose.y)) \o ","
    \o FormatDouble(Yaw(pose)) \o "\n"

\* faulty variant: the file is opened without std::ios::app, which truncates it
saveWaypointToCSV_Truncate(file, pose, opened) ==
    IF opened THEN <<CsvLine(pose)>> ELSE file

\* std::ofstream file(path, std::ios::app); if (file.is_open()) { file << line }
\* opened: whether the open succeeded
saveWaypointToCSV(file, pose, opened) ==
    IF opened THEN Append(file, CsvLine(pose)) ELSE file

\* faulty variant: the caller passes ++waypoint_id_ instead of waypoint_id_++
createArrowMarker_PreIncrement(id, pose) ==
    [frame_id |-> "map", ns |-> "waypoints", id |-> id + 1, pose |-> pose]

\* createArrowMarker(id, pose): the fields that vary (the rest are constants)
createArrowMarker(id, pose) ==
    [frame_id |-> "map", ns |-> "waypoints", id |-> id, pose |-> pose]

(***************************************************************************)
(* Reading element i (C++ index) of a message's list with operator[]: in   *)
(* bounds it is the element; out of bounds it is undefined behaviour,      *)
(* either a fault that ends the process or some value.                     *)
(***************************************************************************)
Read(v, i, garbage) ==
    IF i < Len(v)
    THEN { [fault |-> FALSE, val |-> At(v, i)] }
    ELSE { [fault |-> TRUE, val |-> 0] }
         \cup { [fault |-> FALSE, val |-> g] : g \in garbage }

\* faulty variant: the two axes are swapped
Twist_Swapped(lx, az) == [linear_x |-> az, angular_z |-> lx]

\* geometry_msgs::Twist published by joyCallback (the other components are 0)
Twist(lx, az) == [linear_x |-> lx, angular_z |-> az]

(***************************************************************************)
(* Initial state: the object after its constructor, run() about to test    *)
(* ros::ok() for the first time.  The file may already hold lines.         *)
(***************************************************************************)
OldFiles == { <<>>, <<"5,5,0\n">> }

NewCycle == [presses |-> 0, id0 |-> waypoint_id_, len0 |-> Len(csv_file),
             markers0 |-> Len(marker_pub), checked |-> "none"]

\* faulty variant: save_waypoint_ has no initialiser and starts set
Init_FlagSet ==
    /\ pc = "loop"
    /\ ros_ok = TRUE
    /\ inbox = <<>>
    /\ todo = 0
    /\ current_pose_ = DefaultPose
    /\ save_waypoint_ = TRUE
    /\ waypoint_id_ = 0
    /\ csv_file \in OldFiles
    /\ marker_pub = <<>>
    /\ cmd_vel_pub = <<>>
    /\ arrived = 0
    /\ csv_init = csv_file
    /\ open_log = <<>>
    /\ joy_log = <<>>
    /\ cycle = [presses |-> 0, id0 |-> 0, len0 |-> Len(csv_file),
                markers0 |-> 0, checked |-> "none"]

Init ==
    /\ pc = "loop"
    /\ ros_ok = TRUE
    /\ inbox = <<>>
    /\ todo = 0
    /\ current_pose_ = DefaultPose
    /\ save_waypoint_ = FALSE
    /\ waypoint_id_ = 0
    /\ csv_file \in OldFiles
    /\ marker_pub = <<>>
    /\ cmd_vel_pub = <<>>
    /\ arrived = 0
    /\ csv_init = csv_file
    /\ open_log = <<>>
    /\ joy_log = <<>>
    /\ cycle = [presses |-> 0, id0 |-> 0, len0 |-> Len(csv_file),
                markers0 |-> 0, checked |-> "none"]

Alive == pc \notin {"done", "crashed"}

(***************************************************************************)
(* The environment: messages arrive, shutdown is requested.                *)
(***************************************************************************)
JoyArrive ==
    /\ Alive /\ arrived < MaxEvents
    /\ \E e \in JoyEvents : inbox' = Append(inbox, e)
    /\ arrived' = arrived + 1
    /\ UNCHANGED <<pc, ros_ok, todo, current_pose_, save_waypoint_, waypoint_id_,
                   csv_file, marker_pub, cmd_vel_pub, csv_init, open_log,
                   joy_log, cycle>>

PoseArrive ==
    /\ Alive /\ arrived < MaxEvents
    /\ \E e \in PoseEvents : inbox' = Append(inbox, e)
    /\ arrived' = arrived + 1
    /\ UNCHANGED <<pc, ros_ok, todo, current_pose_, save_waypoint_, waypoint_id_,
                   csv_file, marker_pub, cmd_vel_pub, csv_init, open_log,
                   joy_log, cycle>>

Shutdown ==
    /\ Alive /\ ros_ok
    /\ ros_ok' = FALSE
    /\ UNCHANGED <<pc, inbox, todo, current_pose_, save_waypoint_, waypoint_id_,
                   csv_file, marker_pub, cmd_vel_pub, arrived, csv_init,
                   open_log, joy_log, cycle>>

(***************************************************************************)
(* run(): while (ros::ok()) { spinOnce(); if (save_waypoint_) {...}; sleep }*)
(***************************************************************************)
\* the while test, and the entry into spinOnce(), which calls the callbacks
\* that are pending at that moment
runLoop ==
    /\ pc = "loop"
    /\ IF ros_ok
       THEN /\ pc' = "spin"
            /\ todo' = Len(inbox)
            /\ cycle' = NewCycle
       ELSE /\ pc' = "done"
            /\ UNCHANGED <<todo, cycle>>
    /\ UNCHANGED <<ros_ok, inbox, current_pose_, save_waypoint_, waypoint_id_,
                   csv_file, marker_pub, cmd_vel_pub, arrived, csv_init,
                   open_log, joy_log>>

\* faulty variant: the callback checks the sizes and returns on an undersized
\* message
joyCallback_BoundsChecked ==
    /\ pc = "spin" /\ todo > 0
    /\ Head(inbox).type = "joy"
    /\ LET joy_msg == Head(inbox).joy IN
       IF Len(joy_msg.buttons) < 3 \/ Len(joy_msg.axes) < 4
       THEN /\ joy_log' = Append(joy_log, [joy |-> joy_msg, pressed |-> FALSE,
                                           done |-> TRUE,
                                           pose |-> current_pose_])
            /\ UNCHANGED <<save_waypoint_, pc, cmd_vel_pub, cycle>>
       ELSE LET pressed == At(joy_msg.buttons, 2) = 1 IN
            /\ save_waypoint_' = IF pressed THEN TRUE ELSE save_waypoint_
            /\ pc' = pc
            /\ cmd_vel_pub' = Append(cmd_vel_pub,
                                Twist(At(joy_msg.axes, 3), At(joy_msg.axes, 0)))
            /\ joy_log' = Append(joy_log, [joy |-> joy_msg, pressed |-> pressed,
                                           done |-> TRUE,
                                           pose |-> current_pose_])
            /\ cycle' = [cycle EXCEPT !.presses = @ + (IF pressed THEN 1 ELSE 0)]
    /\ inbox' = Tail(inbox)
    /\ todo' = todo - 1
    /\ UNCHANGED <<ros_ok, current_pose_, waypoint_id_, csv_file, marker_pub,
                   arrived, csv_init, open_log>>

\* faulty variant: the callback saves the waypoint itself on every press, besides
\* setting the flag
joyCallback_SaveInCallback ==
    /\ pc = "spin" /\ todo > 0
    /\ Head(inbox).type = "joy"
    /\ LET joy_msg == Head(inbox).joy IN
       \E b2 \in Read(joy_msg.buttons, 2, GarbageButtons),
          a3 \in Read(joy_msg.axes, 3, GarbageAxes),
          a0 \in Read(joy_msg.axes, 0, GarbageAxes) :
         LET pressed == ~b2.fault /\ b2.val = 1
             faulted == b2.fault \/ a3.fault \/ a0.fault
         IN
         /\ save_waypoint_' = IF pressed THEN TRUE ELSE save_waypoint_
         /\ IF pressed
            THEN \E opened \in BOOLEAN :
                   /\ csv_file' = saveWaypointToCSV(csv_file, current_pose_, opened)
                   /\ open_log' = Append(open_log, opened)
                   /\ marker_pub' = Append(marker_pub,
                                      createArrowMarker(waypoint_id_, current_pose_))
                   /\ waypoint_id_' = waypoint_id_ + 1
            ELSE UNCHANGED <<csv_file, open_log, marker_pub, waypoint_id_>>
         /\ IF faulted
            THEN /\ pc' = "crashed"
                 /\ UNCHANGED cmd_vel_pub
            ELSE /\ pc' = pc
                 /\ cmd_vel_pub' = Append(cmd_vel_pub, Twist(a3.val, a0.val))
         /\ joy_log' = Append(joy_log, [joy |-> joy_msg, pressed |-> pressed,
                                        done |-> ~faulted,
                                        pose |-> current_pose_])
         /\ cycle' = [cycle EXCEPT !.presses = @ + (IF pressed THEN 1 ELSE 0)]
    /\ inbox' = Tail(inbox)
    /\ todo' = todo - 1
    /\ UNCHANGED <<ros_ok, current_pose_, arrived, csv_init>>

\* joyCallback(joy_msg), called by spinOnce() for the oldest pending message
joyCallback ==
    /\ pc = "spin" /\ todo > 0
    /\ Head(inbox).type = "joy"
    /\ LET joy_msg == Head(inbox).joy IN
       \E b2 \in Read(joy_msg.buttons, 2, GarbageButtons),
          a3 \in Read(joy_msg.axes, 3, GarbageAxes),
          a0 \in Read(joy_msg.axes, 0, GarbageAxes) :
         LET pressed == ~b2.fault /\ b2.val = 1
             faulted == b2.fault \/ a3.fault \/ a0.fault
         IN
         /\ save_waypoint_' = IF pressed THEN TRUE ELSE save_waypoint_
         /\ IF faulted
            THEN /\ pc' = "crashed"
                 /\ UNCHANGED cmd_vel_pub
            ELSE /\ pc' = pc
                 /\ cmd_vel_pub' = Append(cmd_vel_pub, Twist(a3.val, a0.val))
         /\ joy_log' = Append(joy_log, [joy |-> joy_msg, pressed |-> pressed,
                                        done |-> ~faulted,
                                        pose |-> current_pose_])
         /\ cycle' = [cycle EXCEPT !.presses = @ + (IF pressed THEN 1 ELSE 0)]
    /\ inbox' = Tail(inbox)
    /\ todo' = todo - 1
    /\ UNCHANGED <<ros_ok, current_pose_, waypoint_id_, csv_file, marker_pub,
                   arrived, csv_init, open_log>>

\* faulty variant: a pose received while a save is pending is not stored
amclPoseCallback_IgnoredWhilePending ==
    /\ pc = "spin" /\ todo > 0
    /\ Head(inbox).type = "pose"
    /\ current_pose_' = IF save_waypoint_ THEN current_pose_
                        ELSE Head(inbox).pose
    /\ inbox' = Tail(inbox)
    /\ todo' = todo - 1
    /\ UNCHANGED <<pc, ros_ok, save_waypoint_, waypoint_id_, csv_file,
                   marker_pub, cmd_vel_pub, arrived, csv_init, open_log,
                   joy_log, cycle>>

\* amclPoseCallback(msg), called by spinOnce() for the oldest pending message
amclPoseCallback ==
    /\ pc = "spin" /\ todo > 0
    /\ Head(inbox).type = "pose"
    /\ current_pose_' = Head(inbox).pose
    /\ inbox' = Tail(inbox)
    /\ todo' = todo - 1
    /\ UNCHANGED <<pc, ros_ok, save_waypoint_, waypoint_id_, csv_file,
                   marker_pub, cmd_vel_pub, arrived, csv_init, open_log,
                   joy_log, cycle>>

\* faulty variant: the flag is not reset after the save
runSave_NoReset ==
    /\ pc = "spin" /\ todo = 0
    /\ IF save_waypoint_
       THEN \E opened \in BOOLEAN :
              /\ csv_file' = saveWaypointToCSV(csv_file, current_pose_, opened)
              /\ open_log' = Append(open_log, opened)
              /\ marker_pub' = Append(marker_pub,
                                 createArrowMarker(waypoint_id_, current_pose_))
              /\ waypoint_id_' = waypoint_id_ + 1
              /\ save_waypoint_' = save_waypoint_
              /\ cycle' = [cycle EXCEPT !.checked = "set"]
       ELSE /\ cycle' = [cycle EXCEPT !.checked = "clear"]
            /\ UNCHANGED <<csv_file, open_log, marker_pub, waypoint_id_,
                           save_waypoint_>>
    /\ pc' = "sleep"
    /\ UNCHANGED <<ros_ok, inbox, todo, current_pose_, cmd_vel_pub, arrived,
                   csv_init, joy_log>>

\* faulty variant: the flag is reset only when the file could be opened
runSave_RetryOnFailure ==
    /\ pc = "spin" /\ todo = 0
    /\ IF save_waypoint_
       THEN \E opened \in BOOLEAN :
              /\ csv_file' = saveWaypointToCSV(csv_file, current_pose_, opened)
              /\ open_log' = Append(open_log, opened)
              /\ marker_pub' = Append(marker_pub,
                                 createArrowMarker(waypoint_id_, current_pose_))
              /\ waypoint_id_' = waypoint_id_ + 1
              /\ save_waypoint_' = ~opened
              /\ cycle' = [cycle EXCEPT !.checked = "set"]
       ELSE /\ cycle' = [cycle EXCEPT !.checked = "clear"]
            /\ UNCHANGED <<csv_file, open_log, marker_pub, waypoint_id_,
                           save_waypoint_>>
    /\ pc' = "sleep"
    /\ UNCHANGED <<ros_ok, inbox, todo, current_pose_, cmd_vel_pub, arrived,
                   csv_init, joy_log>>

\* faulty variant: the marker is published and the id advanced only when the file could be
\* opened
runSave_MarkerOnSuccess ==
    /\ pc = "spin" /\ todo = 0
    /\ IF save_waypoint_
       THEN \E opened \in BOOLEAN :
              /\ csv_file' = saveWaypointToCSV(csv_file, current_pose_, opened)
              /\ open_log' = Append(open_log, opened)
              /\ IF opened
                 THEN /\ marker_pub' = Append(marker_pub,
                                 createArrowMarker(waypoint_id_, current_pose_))
                      /\ waypoint_id_' = waypoint_id_ + 1
                 ELSE UNCHANGED <<marker_pub, waypoint_id_>>
              /\ save_waypoint_' = FALSE
              /\ cycle' = [cycle EXCEPT !.checked = "set"]
       ELSE /\ cycle' = [cycle EXCEPT !.checked = "clear"]
            /\ UNCHANGED <<csv_file, open_log, marker_pub, waypoint_id_,
                           save_waypoint_>>
    /\ pc' = "sleep"
    /\ UNCHANGED <<ros_ok, inbox, todo, current_pose_, cmd_vel_pub, arrived,
                   csv_init, joy_log>>

\* spinOnce() has returned: the  if (save_waypoint_) { ... }  block of run()
runSave ==
    /\ pc = "spin" /\ todo = 0
    /\ IF save_waypoint_
       THEN \E opened \in BOOLEAN :
              /\ csv_file' = saveWaypointToCSV(csv_file, current_pose_, opened)
              /\ open_log' = Append(open_log, opened)
              /\ marker_pub' = Append(marker_pub,
                                 createArrowMarker(waypoint_id_, current_pose_))
              /\ waypoint_id_' = waypoint_id_ + 1
              /\ save_waypoint_' = FALSE
              /\ cycle' = [cycle EXCEPT !.checked = "set"]
       ELSE /\ cycle' = [cycle EXCEPT !.checked = "clear"]
            /\ UNCHANGED <<csv_file, open_log, marker_pub, waypoint_id_,
                           save_waypoint_>>
    /\ pc' = "sleep"
    /\ UNCHANGED <<ros_ok, inbox, todo, current_pose_, cmd_vel_pub, arrived,
                   csv_init, joy_log>>

\* rate.sleep() returns and the loop goes back to its test
runSleep ==
    /\ pc = "sleep"
    /\ pc' = "loop"
    /\ UNCHANGED <<ros_ok, inbox, todo, current_pose_, save_waypoint_,
                   waypoint_id_, csv_file, marker_pub, cmd_vel_pub, arrived,
                   csv_init, open_log, joy_log, cycle>>

Next ==
    \/ JoyArrive
    \/ PoseArrive
    \/ Shutdown
    \/ runLoop
    \/ joyCallback
    \/ amclPoseCallback
    \/ runSave
    \/ runSleep

Spec == Init /\ [][Next]_vars

TypeOK ==
    /\ pc \in {"loop", "spin", "sleep", "done", "crashed"}
    /\ ros_ok \in BOOLEAN
    /\ todo \in 0..Len(inbox)
    /\ save_waypoint_ \in BOOLEAN
    /\ waypoint_id_ \in Nat
    /\ arrived \in 0..MaxEvents

(***************************************************************************)
(* The save on its own: the process has handled one pose event and one     *)
(* gamepad event with button 2 pressed, spinOnce() has returned, and the   *)
(* loop runs on without further messages.  The pose is drawn from a grid   *)
(* of positions and quaternions (normalised or not).                       *)
(***************************************************************************)
GridQ == {-10000, -7071, -5000, 0, 3827, 5000, 7071, 9239, 10000}

GridPoses ==
    { MkPose(p[1], p[2], r[1], r[2], qz, qw) :
        p \in { <<1000000, 2000000>>, <<0, 0>>, <<-1500000, 250000>> },
        r \in { <<0, 0>>, <<3000, -2000>> },
        qz \in GridQ, qw \in GridQ }

PressMsg == [buttons |-> <<0, 0, 1>>, axes |-> <<0, 0, 0, 0>>]

SaveInit ==
    /\ pc = "spin"
    /\ ros_ok = TRUE
    /\ inbox = <<>>
    /\ todo = 0
    /\ current_pose_ \in GridPoses
    /\ save_waypoint_ = TRUE
    /\ waypoint_id_ = 0
    /\ csv_file \in OldFiles
    /\ marker_pub = <<>>
    /\ cmd_vel_pub = <<Twist(0, 0)>>
    /\ arrived = 2
    /\ csv_init = csv_file
    /\ open_log = <<>>
    /\ joy_log = <<[joy |-> PressMsg, pressed |-> TRUE, done |-> TRUE,
                    pose |-> current_pose_]>>
    /\ cycle = [presses |-> 1, id0 |-> 0, len0 |-> Len(csv_file),
                markers0 |-> 0, checked |-> "none"]

SaveNext ==
    \/ runSave
    \/ runSleep
    \/ runLoop

SaveSpec == SaveInit /\ [][SaveNext]_vars

(***************************************************************************)
(* Vocabulary of the properties.                                           *)
(***************************************************************************)
Last(s) == s[Len(s)]

IsPrefix(s, t) == Len(s) <= Len(t) /\ SubSeq(t, 1, Len(s)) = s

\* a step that is a call of joyCallback
JoyStep == Len(joy_log') = Len(joy_log) + 1

\* a step that is the flag check of run(), after spinOnce() returned
CheckStep == pc = "spin" /\ todo = 0 /\ pc' = "sleep"

\* gamepad events handled so far whose test  buttons[2] == 1  was true
PressedCount == Cardinality({ i \in DOMAIN joy_log : joy_log[i].pressed })

\* released-to-pressed transitions of button 2 over the events handled so
\* far (the button starts released)
RisingEdges ==
    Cardinality({ i \in DOMAIN joy_log :
                    joy_log[i].pressed /\ (i = 1 \/ ~joy_log[i - 1].pressed) })

\* joyCallback calls that ran to their end
DoneCount == Cardinality({ i \in DOMAIN joy_log : joy_log[i].done })

\* lines this process has added to the file
Appended == Len(csv_file) - Len(csv_init)

\* opens of the file that succeeded
OpenedCount == Cardinality({ i \in DOMAIN open_log : open_log[i] })

\* the lines of the first k saves whose open succeeded, in order
RECURSIVE Written(_)
Written(k) ==
    IF k = 0 THEN <<>>
    ELSE IF open_log[k]
         THEN Append(Written(k - 1), CsvLine(marker_pub[k].pose))
         ELSE Written(k - 1)

\* the cycle's check is over (the loop sleeps or is back at its test)
CycleOver == pc \in {"sleep", "loop"} /\ cycle.checked # "none"

(***************************************************************************)
(* C1.  As claimed: one gamepad event with buttons[2] == 1 followed by the *)
(* cycle's flag check appends exactly one line to the file and increments  *)
(* waypoint_id_ by exactly one; a cycle without such an event appends      *)
(* nothing and leaves waypoint_id_ alone.                                  *)
(***************************************************************************)
C1_AsClaimed ==
    /\ (CycleOver /\ cycle.presses = 1) =>
          /\ Len(csv_file) = cycle.len0 + 1
          /\ waypoint_id_ = cycle.id0 + 1
    /\ (CycleOver /\ cycle.presses = 0) =>
          /\ Len(csv_file) = cycle.len0
          /\ waypoint_id_ = cycle.id0

(***************************************************************************)
(* C1, amended.  One gamepad event with buttons[2] == 1 followed by the    *)
(* cycle's flag check increments waypoint_id_ by exactly one and appends   *)
(* exactly one line if the file could be opened, none if it could not; a   *)
(* cycle without such an event appends nothing and leaves waypoint_id_     *)
(* alone, and nothing is appended or incremented outside the flag check.   *)
(***************************************************************************)
C1_OneSavePerTrigger ==
    /\ (CycleOver /\ cycle.presses = 1) =>
          /\ Len(csv_file) = cycle.len0 + (IF Last(open_log) THEN 1 ELSE 0)
          /\ Len(open_log) = cycle.markers0 + 1
          /\ waypoint_id_ = cycle.id0 + 1
    /\ (CycleOver /\ cycle.presses = 0) =>
          /\ Len(csv_file) = cycle.len0
          /\ waypoint_id_ = cycle.id0
    /\ (pc = "spin") =>
          /\ Len(csv_file) = cycle.len0
          /\ waypoint_id_ = cycle.id0

\* a cycle with one qualifying event has ended with the file opened and one
\* line more
C1_Witness ==
    /\ pc = "sleep" /\ cycle.presses = 1 /\ cycle.checked = "set"
    /\ Last(open_log)
    /\ Len(csv_file) = cycle.len0 + 1
    /\ waypoint_id_ = cycle.id0 + 1

(***************************************************************************)
(* C2.  One-shot: in no processing cycle is more than one save performed   *)
(* (at most one line, one marker, one id increment), however many gamepad  *)
(* events with button 2 pressed the cycle handles; and a gamepad event     *)
(* handled while the flag is set leaves the flag set and saves nothing.    *)
(***************************************************************************)
C2_OneShot ==
    /\ [](/\ waypoint_id_ - cycle.id0 \in {0, 1}
          /\ Len(marker_pub) - cycle.markers0 \in {0, 1}
          /\ Len(csv_file) - cycle.len0 \in {0, 1}
          /\ (cycle.presses >= 2 /\ CycleOver) =>
                /\ waypoint_id_ = cycle.id0 + 1
                /\ Len(marker_pub) = cycle.markers0 + 1)
    /\ [][(JoyStep /\ save_waypoint_) =>
             (save_waypoint_' /\ UNCHANGED saved_state)]_vars

\* two qualifying events were handled in one cycle, which made one save
C2_Witness ==
    /\ pc = "sleep" /\ cycle.presses >= 2
    /\ Len(marker_pub) = cycle.markers0 + 1
    /\ Len(csv_file) = cycle.len0 + 1

C5_OpenFailureDropped ==
    /\ Len(open_log) = Len(marker_pub)
    /\ csv_file = csv_init \o Written(Len(open_log))
    /\ pc \in {"sleep", "loop", "done"} => ~save_waypoint_
    /\ pc = "crashed" => (joy_log # <<>> /\ ~Last(joy_log).done)

\* a save whose open failed was followed by a save whose open succeeded
C5_Witness ==
    /\ Len(open_log) = 2
    /\ ~open_log[1] /\ open_log[2]
    /\ csv_file = Append(csv_init, CsvLine(marker_pub[2].pose))
    /\ pc = "sleep"

(***************************************************************************)
(* C6.  A cycle that finds the flag set publishes exactly one marker and   *)
(* advances waypoint_id_ by one, whether or not the file could be opened.  *)
(***************************************************************************)
C6_MarkerRegardless ==
    (CycleOver /\ cycle.checked = "set") =>
       /\ Len(marker_pub) = cycle.markers0 + 1
       /\ waypoint_id_ = cycle.id0 + 1
       /\ Last(marker_pub).id = cycle.id0

\* a save whose open failed: no line, one marker, the id advanced
C6_Witness ==
    /\ pc = "sleep" /\ cycle.checked = "set"
    /\ ~Last(open_log)
    /\ Len(csv_file) = cycle.len0
    /\ Len(marker_pub) = cycle.markers0 + 1
    /\ waypoint_id_ = cycle.id0 + 1

(***************************************************************************)
(* C7.  The k-th marker published (k from 0) carries id k, so the ids are  *)
(* strictly increasing and pairwise different, and no step decreases or    *)
(* resets waypoint_id_.                                                    *)
(***************************************************************************)
C7_MarkerIds ==
    /\ [](\A k \in DOMAIN marker_pub : marker_pub[k].id = k - 1)
    /\ [](\A j, k \in DOMAIN marker_pub :
             j < k => marker_pub[j].id < marker_pub[k].id)
    /\ [][waypoint_id_' >= waypoint_id_]_vars

\* three saves in three cycles published the markers 0, 1, 2
C7_Witness ==
    /\ Len(marker_pub) = 3
    /\ marker_pub[3].id = 2
    /\ pc = "sleep"

(***************************************************************************)
(* C8.  As claimed: between processing cycles waypoint_id_ equals the      *)
(* number of markers published and the number of lines this process has    *)
(* appended to the file.                                                   *)
(***************************************************************************)
C8_AsClaimed ==
    pc \in {"sleep", "loop", "done"} =>
       /\ waypoint_id_ = Len(marker_pub)
       /\ waypoint_id_ = Appended

(***************************************************************************)
(* C8, amended.  waypoint_id_ counts save attempts: in every state it      *)
(* equals the number of markers published and the number of times the file *)
(* was opened for a save; the lines this process has appended are as many  *)
(* as the opens that succeeded, hence at most waypoint_id_, and fewer as   *)
(* soon as one open has failed.                                            *)
(***************************************************************************)
C8_IdCountsAttempts ==
    /\ waypoint_id_ = Len(marker_pub)
    /\ waypoint_id_ = Len(open_log)
    /\ Appended = OpenedCount
    /\ Appended <= waypoint_id_

\* two saves, one of which could not open the file
C8_Witness ==
    /\ pc = "loop"
    /\ waypoint_id_ = 2
    /\ Appended = 1

(***************************************************************************)
(* C9.  The flag is a two-state machine: clear initially; set only by a    *)
(* joyCallback call whose test buttons[2] == 1 is true; cleared only by    *)
(* the flag check of run(); clear whenever a cycle's check is over; a save *)
(* (open of the file and marker) happens in the flag check exactly when    *)
(* the flag is set there, and nowhere else; so nothing is saved before the *)
(* first qualifying gamepad event.                                         *)
(***************************************************************************)
C9_FlagStateMachine ==
    /\ ~save_waypoint_
    /\ [][(~save_waypoint_ /\ save_waypoint_') =>
             (JoyStep /\ Last(joy_log').pressed)]_vars
    /\ [][(save_waypoint_ /\ ~save_waypoint_') => CheckStep]_vars
    /\ [](pc \in {"sleep", "loop", "done"} => ~save_waypoint_)
    /\ [][CheckStep =>
             (save_waypoint_ <=>
                 /\ Len(open_log') = Len(open_log) + 1
                 /\ Len(marker_pub') = Len(marker_pub) + 1)]_vars
    /\ [][(open_log' # open_log \/ marker_pub' # marker_pub
             \/ csv_file' # csv_file \/ waypoint_id_' # waypoint_id_)
             => (CheckStep /\ save_waypoint_)]_vars
    /\ [](PressedCount = 0 =>
             (marker_pub = <<>> /\ open_log = <<>> /\ csv_file = csv_init))

\* the flag is pending again after a save was made
C9_Witness ==
    /\ pc = "spin"
    /\ save_waypoint_
    /\ marker_pub # <<>>

(***************************************************************************)
(* C10.  The file is append-only: every step leaves the file's lines as a  *)
(* prefix of its new lines and adds at most one; the initial lines stay a  *)
(* prefix; a save whose open succeeded adds exactly its line at the end.   *)
(***************************************************************************)
C10_AppendOnly ==
    /\ [][IsPrefix(csv_file, csv_file')
             /\ Len(csv_file') <= Len(csv_file) + 1]_vars
    /\ [](IsPrefix(csv_init, csv_file))
    /\ [][(Len(open_log') = Len(open_log) + 1 /\ Last(open_log')) =>
             csv_file' = Append(csv_file, CsvLine(current_pose_))]_vars

\* two lines were appended behind the lines the file already had
C10_Witness ==
    /\ csv_init # <<>>
    /\ Len(csv_file) = Len(csv_init) + 2
    /\ csv_file[Len(csv_file)] # csv_file[Len(csv_file) - 1]

(***************************************************************************)
(* Reference values: for quaternion components z, w (units of 10^-4) the   *)
(* text that  file << atan2(2.0 * (w * z), 1.0 - 2.0 * (z * z))  writes,   *)
(* as produced by the C++ expression itself.                               *)
(***************************************************************************)
YawReference ==
    {
      <<-10000, -10000, "2.03444">>, <<-10000, -7071, "2.18628">>, <<-10000, -5000, "2.35619">>,
      <<-10000, 0, "-3.14159">>, <<-10000, 3827, "-2.48831">>, <<-10000, 5000, "-2.35619">>,
      <<-10000, 7071, "-2.18628">>, <<-10000, 9239, "-2.06685">>, <<-10000, 10000, "-2.03444">>,
      <<-7071, -10000, "1.57078">>, <<-7071, -7071, "1.57078">>, <<-7071, -5000, "1.57077">>,
      <<-7071, 0, "-0">>, <<-7071, 3827, "-1.57076">>, <<-7071, 5000, "-1.57077">>,
      <<-7071, 7071, "-1.57078">>, <<-7071, 9239, "-1.57078">>, <<-7071, 10000, "-1.57078">>,
      <<-5000, -10000, "1.10715">>, <<-5000, -7071, "0.955312">>, <<-5000, -5000, "0.785398">>,
      <<-5000, 0, "-0">>, <<-5000, 3827, "-0.653284">>, <<-5000, 5000, "-0.785398">>,
      <<-5000, 7071, "-0.955312">>, <<-5000, 9239, "-1.07475">>, <<-5000, 10000, "-1.10715">>,
      <<0, -10000, "-0">>, <<0, -7071, "-0">>, <<0, -5000, "-0">>,
      <<0, 0, "0">>, <<0, 3827, "0">>, <<0, 5000, "0">>,
      <<0, 7071, "0">>, <<0, 9239, "0">>, <<0, 10000, "0">>,
      <<3827, -10000, "-0.824983">>, <<3827, -7071, "-0.653297">>, <<3827, -5000, "-0.496092">>,
      <<3827, 0, "0">>, <<3827, 3827, "0.392742">>, <<3827, 5000, "0.496092">>,
      <<3827, 7071, "0.653297">>, <<3827, 9239, "0.785449">>, <<3827, 10000, "0.824983">>,
      <<5000, -10000, "-1.10715">>, <<5000, -7071, "-0.955312">>, <<5000, -5000, "-0.785398">>,
      <<5000, 0, "0">>, <<5000, 3827, "0.653284">>, <<5000, 5000, "0.785398">>,
      <<5000, 7071, "0.955312">>, <<5000, 9239, "1.07475">>, <<5000, 10000, "1.10715">>,
      <<7071, -10000, "-1.57078">>, <<7071, -7071, "-1.57078">>, <<7071, -5000, "-1.57077">>,
      <<7071, 0, "0">>, <<7071, 3827, "1.57076">>, <<7071, 5000, "1.57077">>,
      <<7071, 7071, "1.57078">>, <<7071, 9239, "1.57078">>, <<7071, 10000, "1.57078">>,
      <<9239, -10000, "-1.93631">>, <<9239, -7071, "-2.06689">>, <<9239, -5000, "-2.2241">>,
      <<9239, 0, "3.14159">>, <<9239, 3827, "2.35622">>, <<9239, 5000, "2.2241">>,
      <<9239, 7071, "2.06689">>, <<9239, 9239, "1.96352">>, <<9239, 10000, "1.93631">>,
      <<10000, -10000, "-2.03444">>, <<10000, -7071, "-2.18628">>, <<10000, -5000, "-2.35619">>,
      <<10000, 0, "3.14159">>, <<10000, 3827, "2.48831">>, <<10000, 5000, "2.35619">>,
      <<10000, 7071, "2.18628">>, <<10000, 9239, "2.06685">>, <<10000, 10000, "2.03444">>
    }

YawText(qz, qw) == (CHOOSE t \in YawReference : t[1] = qz /\ t[2] = qw)[3]

\* a save has just been made and the file could be opened
SavedLine == pc = "sleep" /\ cycle.checked = "set" /\ Last(open_log)

(***************************************************************************)
(* C11.  The yaw written in a record is atan2(2*w*z, 1 - 2*z*z) of the     *)
(* pose's quaternion components z and w, for every (z, w) of the grid,     *)
(* normalised or not; the components x and y of the quaternion do not      *)
(* influence the record.                                                   *)
(***************************************************************************)
C11_YawFromZW ==
    SavedLine =>
       /\ Last(csv_file) =
             FormatDouble(PosNum(current_pose_.x)) \o ","
             \o FormatDouble(PosNum(current_pose_.y)) \o ","
             \o YawText(current_pose_.oz, current_pose_.ow) \o "\n"
       /\ Last(csv_file) = CsvLine([current_pose_ EXCEPT !.ox = 0, !.oy = 0])

\* a record was written for a pose whose quaternion has x and y components
\* and a yaw that is neither 0 nor a multiple of pi/2
C11_Witness ==
    /\ SavedLine
    /\ current_pose_.ox # 0 /\ current_pose_.oy # 0
    /\ current_pose_.oz = 3827 /\ current_pose_.ow = 9239
    /\ Last(csv_file) = "1,2,0.785449\n"

(***************************************************************************)
(* C12.  As claimed: a save with pose (x=1.0, y=2.0, z=0.0, w=1.0) appends *)
(* exactly the line 1.000000,2.000000,0.000000 (fixed notation, six        *)
(* decimals).                                                              *)
(***************************************************************************)
C12_AsClaimed ==
    (SavedLine /\ current_pose_ = MkPose(1000000, 2000000, 0, 0, 0, 10000)) =>
       Last(csv_file) = "1.000000,2.000000,0.000000\n"

(***************************************************************************)
(* C12, amended.  Each saved record is one newline-terminated line of the  *)
(* three comma-separated values x, y, yaw in that order, each written in   *)
(* the stream's default notation (at most six significant digits, no       *)
(* trailing zeros): pose (1.0, 2.0, z=0.0, w=1.0) appends exactly 1,2,0;   *)
(* pose (0, 0, z=0.7071, w=0.7071) appends 0,0,1.57078; pose (-1.5, 0.25,  *)
(* z=-0.7071, w=0.7071) appends -1.5,0.25,-1.57078.                        *)
(***************************************************************************)
C12_DefaultNotation ==
    SavedLine =>
       /\ Len(csv_file) = Len(csv_init) + 1
       /\ current_pose_ = MkPose(1000000, 2000000, 0, 0, 0, 10000)
             => Last(csv_file) = "1,2,0\n"
       /\ current_pose_ = MkPose(0, 0, 0, 0, 7071, 7071)
             => Last(csv_file) = "0,0,1.57078\n"
       /\ current_pose_ = MkPose(-1500000, 250000, 0, 0, -7071, 7071)
             => Last(csv_file) = "-1.5,0.25,-1.57078\n"

\* the record of the pose (1.0, 2.0, z=0.0, w=1.0) was written
C12_Witness ==
    /\ SavedLine
    /\ current_pose_ = MkPose(1000000, 2000000, 0, 0, 0, 10000)
    /\ csv_file = Append(csv_init, "1,2,0\n")


(***************************************************************************)
(* Vocabulary of the claims about the callbacks.                           *)
(***************************************************************************)
\* a step that is a call of amclPoseCallback
PoseStep ==
    /\ pc = "spin" /\ todo > 0
    /\ Head(inbox).type = "pose"
    /\ todo' = todo - 1

\* a gamepad message too short for buttons[2] or axes[3]
Undersized(m) == Len(m.buttons) < 3 \/ Len(m.axes) < 4

\* pose events handled so far: every message delivered is pending, or was
\* handled by joyCallback, or was handled by amclPoseCallback
PosesHandled == arrived - Len(inbox) - Len(joy_log)

(***************************************************************************)
(* C13.  The pose of a save is the pose stored when the flag is checked:   *)
(* every pose event handled replaces current_pose_ by its pose, also while *)
(* a save is pending, and nothing else changes current_pose_; the flag     *)
(* check publishes the marker with current_pose_ and, if the file opens,   *)
(* writes the line of current_pose_; so the record and the marker of one   *)
(* save carry the same pose, the one of the last pose event handled before *)
(* the check, not the one stored when the button was pressed.              *)
(***************************************************************************)
C13_LatestPose ==
    /\ [][PoseStep => current_pose_' = Head(inbox).pose]_vars
    /\ [][current_pose_' # current_pose_ => PoseStep]_vars
    /\ [][(CheckStep /\ save_waypoint_) =>
             /\ Last(marker_pub').pose = current_pose_
             /\ Last(open_log') => Last(csv_file') = CsvLine(current_pose_)]_vars
    /\ [](csv_file = csv_init \o Written(Len(open_log)))

\* a pose event was handled between the press and the flag check of one
\* cycle: the record and the marker carry its pose, not the pose stored at
\* the press
C13_Witness ==
    /\ pc = "sleep" /\ cycle.checked = "set" /\ Last(open_log)
    /\ Last(joy_log).pressed
    /\ Last(joy_log).pose # current_pose_
    /\ Last(marker_pub).pose = current_pose_
    /\ Last(csv_file) = CsvLine(current_pose_)
    /\ Last(csv_file) # CsvLine(Last(joy_log).pose)

(***************************************************************************)
(* C14.  As claimed: no pending save is lost: once the process is no       *)
(* longer inside the drain of a cycle (it sleeps, tests ros::ok(), has     *)
(* left the loop, or has ended), the flag is clear, and if the drain       *)
(* handled a gamepad event with buttons[2] == 1 the cycle has made its     *)
(* save attempt.                                                           *)
(***************************************************************************)
C14_AsClaimed ==
    pc # "spin" =>
       /\ ~save_waypoint_
       /\ cycle.presses > 0 => Len(open_log) = cycle.markers0 + 1

(***************************************************************************)
(* C15.  joyCallback does not check the sizes of the message's lists: a    *)
(* call for an undersized message never ends as a rejected message (the    *)
(* process alive, no velocity command published): it either faults or      *)
(* publishes a command built from what the out-of-bounds read yielded;     *)
(* the process ends only in such a call, and a call for a message of full  *)
(* size never faults and tests the button the message carries.             *)
(***************************************************************************)
C15_NoBoundsCheck ==
    /\ [][(JoyStep /\ Undersized(Head(inbox).joy)) =>
             (pc' = "crashed"
                \/ Len(cmd_vel_pub') = Len(cmd_vel_pub) + 1)]_vars
    /\ [](pc = "crashed" =>
             /\ joy_log # <<>>
             /\ Undersized(Last(joy_log).joy)
             /\ ~Last(joy_log).done)
    /\ [](\A i \in DOMAIN joy_log :
             ~Undersized(joy_log[i].joy) =>
                /\ joy_log[i].done
                /\ joy_log[i].pressed <=> (At(joy_log[i].joy.buttons, 2) = 1))

\* a message with two buttons set the flag (the read of buttons[2] yielded
\* 1), published a command, and a waypoint was saved for it
C15_Witness ==
    /\ Len(joy_log) = 1
    /\ Len(joy_log[1].joy.buttons) < 3
    /\ joy_log[1].pressed /\ joy_log[1].done
    /\ Len(cmd_vel_pub) = 1
    /\ Len(marker_pub) = 1

(***************************************************************************)
(* C16.  As claimed: when a gamepad event with buttons[2] == 1 was handled *)
(* in this cycle (every flag setting so far came from a button the message *)
(* carries) and the last gamepad event handled has buttons[2] == 0, the    *)
(* flag is still set as long as the drain lasts, and once the drain is     *)
(* left the save of this cycle has been performed.                         *)
(***************************************************************************)
C16_AsClaimed ==
    (/\ cycle.presses > 0
     /\ \A i \in DOMAIN joy_log :
           joy_log[i].pressed => Len(joy_log[i].joy.buttons) >= 3
     /\ joy_log # <<>>
     /\ Len(Last(joy_log).joy.buttons) >= 3
     /\ At(Last(joy_log).joy.buttons, 2) = 0) =>
       IF pc = "spin" THEN save_waypoint_
       ELSE ~save_waypoint_ /\ Len(open_log) = cycle.markers0 + 1

(***************************************************************************)
(* C17.  Frame of the callbacks: a call of amclPoseCallback leaves the     *)
(* flag, waypoint_id_, the file, the markers and the velocity commands as  *)
(* they are and does not end the process; a call of joyCallback leaves     *)
(* current_pose_, waypoint_id_, the file and the markers as they are.      *)
(***************************************************************************)
C17_CallbackFrame ==
    /\ [][PoseStep =>
             UNCHANGED <<save_waypoint_, waypoint_id_, csv_file, marker_pub,
                         cmd_vel_pub, open_log, pc>>]_vars
    /\ [][JoyStep =>
             UNCHANGED <<current_pose_, waypoint_id_, csv_file, marker_pub,
                         open_log>>]_vars

\* after a save, a gamepad event set the flag again and a pose event was
\* handled while it was set
C17_Witness ==
    /\ pc = "spin" /\ save_waypoint_
    /\ Len(marker_pub) = 1
    /\ Last(joy_log).pressed
    /\ Last(joy_log).pose # current_pose_

(***************************************************************************)
(* C18.  As long as no pose event has been handled, a save is made like    *)
(* any other and carries the constructor's pose: every marker is at x = 0, *)
(* y = 0, orientation z = 0, w = 1 with the next id, and every line        *)
(* written is 0,0,0.                                                       *)
(***************************************************************************)
C18_DefaultPoseSaved ==
    PosesHandled = 0 =>
       /\ \A k \in DOMAIN marker_pub :
             /\ marker_pub[k].id = k - 1
             /\ marker_pub[k].pose.x = 0 /\ marker_pub[k].pose.y = 0
             /\ marker_pub[k].pose.oz = 0 /\ marker_pub[k].pose.ow = 10000
       /\ csv_file = csv_init \o [k \in 1..OpenedCount |-> "0,0,0\n"]
       /\ (CycleOver /\ cycle.presses > 0) =>
             Len(marker_pub) = cycle.markers0 + 1

\* two saves were made before any pose event, the second could open the file
C18_Witness ==
    /\ PosesHandled = 0
    /\ pc = "sleep"
    /\ Len(marker_pub) = 2
    /\ marker_pub[2].id = 1
    /\ Last(open_log)
    /\ Last(csv_file) = "0,0,0\n"

====
